---- MODULE Spec2Model ----
(***************************************************************************)
(* Model of apps/admin-api/scripts/create-structure.py: the script that    *)
(* creates the Clean Architecture directory skeleton under                 *)
(* <script dir>/../src.                                                    *)
(*                                                                         *)
(* A path is the sequence of its segments from the filesystem root.  The   *)
(* filesystem is the pair (dirs, files) of the paths that exist as a       *)
(* directory resp. as a plain file.  Path.mkdir(parents=True,              *)
(* exist_ok=True) is modelled at the granularity of its system calls: one  *)
(* os.mkdir per step, one stat (is_dir) per step.  Permissions and I/O     *)
(* errors are outside the model: a creation fails only on a missing or     *)
(* non-directory path component, or on an existing target.                 *)
(***************************************************************************)
EXTENDS Naturals, Integers, Sequences, FiniteSets, TLC

VARIABLES dirs, files, proc, manifest, fs0, quota

vars == <<dirs, files, proc, manifest, fs0, quota>>

----------------------------------------------------------------------------
(* Bounds of the model *)

\* greatest number of paths under BASE_DIR.parent that exist before the
\* first run, beside the single chains and the complete tree
MaxPre == 3

\* greatest number of runs of the script by one invoker
MaxRuns == 2

\* number of rotations / adjacent swaps of the manifest tried
MaxShift == 3

----------------------------------------------------------------------------
(* Paths *)

Parent(p) == IF p = <<>> THEN p ELSE SubSeq(p, 1, Len(p) - 1)

Join(p, q) == p \o q

IsPrefix(p, q) == Len(p) <= Len(q) /\ SubSeq(q, 1, Len(p)) = p

\* Path.relative_to: the segments of p after the prefix other
RelativeTo(p, other) == SubSeq(p, Len(other) + 1, Len(p))

RECURSIVE Str(_)
\* str(Path): the segments joined by "/"
Str(p) ==
  IF p = <<>> THEN "."
  ELSE IF Len(p) = 1 THEN p[1]
  ELSE p[1] \o "/" \o Str(Tail(p))

\* __file__ of the running script
ScriptFile == <<"apps", "admin-api", "scripts", "create-structure.py">>

BASE_DIR == Join(Parent(Parent(ScriptFile)), <<"src">>)

DIRS == <<
  <<"presentation", "controllers">>,
  <<"presentation", "dtos">>,
  <<"presentation", "mappers">>,
  <<"application", "auth", "use-cases">>,
  <<"application", "auth", "commands">>,
  <<"application", "auth", "queries">>,
  <<"application", "auth", "dtos">>,
  <<"application", "users">>,
  <<"application", "shared", "interfaces">>,
  <<"application", "shared", "events">>,
  <<"domain", "auth", "entities">>,
  <<"domain", "auth", "value-objects">>,
  <<"domain", "auth", "services">>,
  <<"domain", "auth", "events">>,
  <<"domain", "auth", "repositories">>,
  <<"domain", "users">>,
  <<"domain", "roles">>,
  <<"domain", "permissions">>,
  <<"domain", "tenants">>,
  <<"domain", "shared", "events">>,
  <<"domain", "shared", "value-objects">>,
  <<"infrastructure", "persistence", "typeorm", "repositories">>,
  <<"infrastructure", "persistence", "typeorm", "entities">>,
  <<"infrastructure", "persistence", "mappers">>,
  <<"infrastructure", "events", "handlers">>,
  <<"infrastructure", "external">>
>>

\* variant: the base is the directory above BASE_DIR
FullPathAbove(dir_path) == Join(Parent(BASE_DIR), dir_path)

\* full_path = BASE_DIR / dir_path
FullPath(dir_path) == Join(BASE_DIR, dir_path)

----------------------------------------------------------------------------
(* The filesystem *)

Min(S) == CHOOSE n \in S : \A k \in S : n <= k

\* errno of os.mkdir(path) on the filesystem (d, f); "OK" when it creates
OsMkdir(d, f, path) ==
  LET bad == {n \in 0..(Len(path) - 1) : SubSeq(path, 1, n) \notin d}
  IN  IF path = <<>> THEN "EEXIST"
      ELSE IF bad # {}
        THEN IF SubSeq(path, 1, Min(bad)) \in f THEN "ENOTDIR" ELSE "ENOENT"
      ELSE IF path \in d \cup f THEN "EEXIST"
      ELSE "OK"

\* the exception class Python raises for an errno
ExcOf(errno) ==
  CASE errno = "EEXIST"  -> "FileExistsError"
    [] errno = "ENOTDIR" -> "NotADirectoryError"
    [] errno = "ENOENT"  -> "FileNotFoundError"
    [] OTHER             -> "OSError"

----------------------------------------------------------------------------
(* One run of create_dirs, as steps on the local state l of the run *)

NoSnap == [ok |-> FALSE, dirs |-> {}, files |-> {}, count |-> 0]

IdleProc ==
  [pc |-> "idle", run |-> 0, idx |-> 0, target |-> <<>>, retry |-> FALSE,
   errno |-> "", exc |-> "", created |-> <<>>, out |-> <<>>, ret |-> <<>>,
   attempts |-> <<>>, post |-> NoSnap, prev |-> NoSnap]

\* variant: exist_ok left at its default False
ExistOkOff(l) == FALSE

\* variant: exist_ok not passed on to the retry after the parents were made
ExistOkFirstOnly(l) == ~l.retry

\* mkdir(parents=True, exist_ok=True): the exist_ok argument, in every frame
\* of the call
ExistOk(l) == TRUE

\* the head of the for loop: the entry at position i is taken and
\* full_path.mkdir is entered
Enter(l, m, i) ==
  [l EXCEPT !.pc = "mkdir", !.idx = i, !.target = FullPath(m[i]),
            !.retry = FALSE, !.errno = "", !.attempts = Append(@, i)]

\* variant: the loop body wrapped in try/except that skips the entry
RaiseCaught(d, l, m, e) ==
  IF l.idx < Len(m) THEN [dirs |-> d, l |-> Enter(l, m, l.idx + 1)]
  ELSE [dirs |-> d, l |-> [l EXCEPT !.pc = "print", !.errno = ""]]

\* variant: a failure removes what lies under BASE_DIR before re-raising
RaiseRollback(d, l, m, e) ==
  [dirs |-> {x \in d : ~(IsPrefix(BASE_DIR, x) /\ x # BASE_DIR)},
   l |-> [l EXCEPT !.pc = "error", !.exc = e, !.errno = ""]]

\* an exception leaves create_dirs: nothing catches it, nothing is undone
Raise(d, l, m, e) ==
  [dirs |-> d, l |-> [l EXCEPT !.pc = "error", !.exc = e, !.errno = ""]]

\* variant: the loop stops one entry early
LastIndexShort(m) == Len(m) - 1

\* the last position of the for loop
LastIndex(m) == Len(m)

\* variant: relative_to(BASE_DIR)
RelBaseSelf == BASE_DIR

\* the argument of relative_to: BASE_DIR.parent
RelBase == Parent(BASE_DIR)

\* variant: only a directory this run made is recorded
AdvanceNewOnly(d, l, m) ==
  LET full == FullPath(m[l.idx])
      c    == IF l.errno = ""
                THEN Append(l.created, Str(RelativeTo(full, RelBase)))
                ELSE l.created
  IN  IF l.idx < LastIndex(m)
        THEN [dirs |-> d, l |-> Enter([l EXCEPT !.created = c], m, l.idx + 1)]
      ELSE [dirs |-> d, l |-> [l EXCEPT !.created = c, !.pc = "print",
                                        !.errno = ""]]

\* full_path.mkdir returned: created.append(...), then the next entry or,
\* after the last one, the print
Advance(d, l, m) ==
  LET full == FullPath(m[l.idx])
      c    == Append(l.created, Str(RelativeTo(full, RelBase)))
  IN  IF ~IsPrefix(RelBase, full) THEN Raise(d, l, m, "ValueError")
      ELSE IF l.idx < LastIndex(m)
        THEN [dirs |-> d, l |-> Enter([l EXCEPT !.created = c], m, l.idx + 1)]
      ELSE [dirs |-> d, l |-> [l EXCEPT !.created = c, !.pc = "print",
                                        !.errno = ""]]

\* one frame of Path.mkdir returned normally: the outermost frame ends the
\* call; an inner frame returns to its caller, which retries its own
\* os.mkdir with parents=False
MkdirReturn(d, l, m) ==
  LET full == FullPath(m[l.idx])
  IN  IF l.target = full THEN Advance(d, l, m)
      ELSE [dirs |-> d,
            l |-> [l EXCEPT !.pc = "mkdir", !.retry = TRUE, !.errno = "",
                            !.target = SubSeq(full, 1, Len(l.target) + 1)]]

\* os.mkdir(target) inside Path.mkdir
MkdirStep(d, f, l, m) ==
  LET r == OsMkdir(d, f, l.target)
  IN  CASE r = "OK" -> MkdirReturn(d \cup {l.target}, l, m)
        [] r = "ENOENT" ->
             IF l.retry \/ Parent(l.target) = l.target
               THEN Raise(d, l, m, ExcOf(r))
               ELSE [dirs |-> d, l |-> [l EXCEPT !.target = Parent(l.target)]]
        [] OTHER ->
             IF ~ExistOk(l) THEN Raise(d, l, m, ExcOf(r))
             ELSE [dirs |-> d, l |-> [l EXCEPT !.pc = "isdir", !.errno = r]]

\* variant: except OSError: pass, without the is_dir() test
IsDirStepNoTest(d, f, l, m) == MkdirReturn(d, l, m)

\* the is_dir() test of the except OSError branch
IsDirStep(d, f, l, m) ==
  IF l.target \in d THEN MkdirReturn(d, l, m)
  ELSE Raise(d, l, m, ExcOf(l.errno))

\* print(len(created)); return created
SummaryStep(d, f, l, m) ==
  [dirs |-> d,
   l |-> [l EXCEPT !.pc = "done", !.out = Append(@, Len(l.created)),
                   !.ret = l.created,
                   !.post = [ok |-> TRUE, dirs |-> d, files |-> f,
                             count |-> Len(l.created)]]]

\* the script is run: create_dirs() starts with created = []
InvokeStep(d, f, l, m) ==
  LET fresh == [l EXCEPT !.run = l.run + 1, !.created = <<>>, !.out = <<>>,
                         !.ret = <<>>, !.exc = "", !.errno = "",
                         !.attempts = <<>>, !.idx = 0, !.target = <<>>,
                         !.retry = FALSE,
                         !.prev = IF l.pc = "done" THEN l.post ELSE NoSnap]
  IN  IF Len(m) = 0 THEN [dirs |-> d, l |-> [fresh EXCEPT !.pc = "print"]]
      ELSE [dirs |-> d, l |-> Enter(fresh, m, 1)]

StepOf(d, f, l, m) ==
  CASE l.pc = "mkdir" -> MkdirStep(d, f, l, m)
    [] l.pc = "isdir" -> IsDirStep(d, f, l, m)
    [] l.pc = "print" -> SummaryStep(d, f, l, m)

RECURSIVE RunToEnd(_, _, _, _)
RunToEnd(d, f, l, m) ==
  IF l.pc \in {"done", "error"} THEN [dirs |-> d, l |-> l]
  ELSE LET s == StepOf(d, f, l, m) IN RunToEnd(s.dirs, f, s.l, m)

\* a whole run of create_dirs over the manifest m, alone on (d, f)
create_dirs(d, f, m) ==
  LET s == InvokeStep(d, f, IdleProc, m) IN RunToEnd(s.dirs, f, s.l, m)

----------------------------------------------------------------------------
(* Initial filesystems *)

\* the paths that exist because the script itself does
Given == {SubSeq(ScriptFile, 1, n) : n \in 0..(Len(ScriptFile) - 1)}

PrefixesFrom(p, k) == {SubSeq(p, 1, n) : n \in k..Len(p)}

\* BASE_DIR and everything the manifest names under it
Tree ==
  UNION {PrefixesFrom(Join(BASE_DIR, DIRS[i]), Len(BASE_DIR)) : i \in 1..Len(DIRS)}

\* paths the manifest does not name
Extras == {Join(BASE_DIR, <<"main.ts">>),
           Join(BASE_DIR, <<"domain", "auth", "entities", "user.entity.ts">>)}

Universe == Tree \cup Extras

Leaves(T) == {x \in T : ~\E y \in T : y # x /\ Parent(y) = x}

RECURSIVE Grow(_)
\* the sets of at most k paths of Universe closed under Parent
Grow(k) ==
  IF k = 0 THEN {{}}
  ELSE LET G == Grow(k - 1)
           ext == {tx \in G \X Universe :
                     /\ tx[2] \notin tx[1]
                     /\ Parent(tx[2]) \in tx[1] \cup {Parent(BASE_DIR)}}
       IN  G \cup {tx[1] \cup {tx[2]} : tx \in ext}

\* the path x with all of its ancestors up to BASE_DIR
Chain(x) == PrefixesFrom(x, Len(BASE_DIR))

\* <<existing paths, those of them that are plain files>>: every small
\* closed set with any of its leaves as files, every single chain ending in
\* a directory or in a file, and the complete tree
Shapes ==
  UNION {{<<T, F>> : F \in SUBSET Leaves(T)} : T \in Grow(MaxPre)}
  \cup UNION {{<<Chain(x), F>> : F \in {{}, {x}}} : x \in Universe}
  \cup {<<Tree, {}>>, <<Universe, Extras>>}

----------------------------------------------------------------------------
(* Orders of the manifest *)

Reverse(s) == [i \in 1..Len(s) |-> s[Len(s) + 1 - i]]

Rotate(s, k) == [i \in 1..Len(s) |-> s[((i - 1 + k) % Len(s)) + 1]]

SwapAdj(s, k) ==
  [i \in 1..Len(s) |-> IF i = k THEN s[k + 1] ELSE IF i = k + 1 THEN s[k] ELSE s[i]]

Perms ==
  {Reverse(DIRS)}
  \cup {Rotate(DIRS, k) : k \in 1..MaxShift}
  \cup {SwapAdj(DIRS, k) : k \in 1..MaxShift}

----------------------------------------------------------------------------
(* The state machine *)

InitWith(P, M, q) ==
  /\ \E sh \in Shapes :
       /\ dirs = Given \cup (sh[1] \ sh[2])
       /\ files = {ScriptFile} \cup sh[2]
  /\ proc = [p \in P |-> IdleProc]
  /\ manifest \in M
  /\ fs0 = [dirs |-> dirs, files |-> files]
  /\ quota = q

\* one invoker running the script up to MaxRuns times, the manifest as
\* written
Init == InitWith({"p1"}, {DIRS}, MaxRuns)

\* one invoker, the manifest in another order
InitPerm == InitWith({"p1"}, Perms, MaxRuns)

\* two invokers running the script once each against the same BASE_DIR
InitConc == InitWith({"p1", "p2"}, {DIRS}, 1)

Apply(p, s) ==
  /\ dirs' = s.dirs
  /\ proc' = [proc EXCEPT ![p] = s.l]
  /\ UNCHANGED <<files, manifest, fs0, quota>>

Invoke(p) ==
  /\ proc[p].pc \in {"idle", "done", "error"}
  /\ proc[p].run < quota
  /\ Apply(p, InvokeStep(dirs, files, proc[p], manifest))

Mkdir(p) ==
  /\ proc[p].pc = "mkdir"
  /\ Apply(p, MkdirStep(dirs, files, proc[p], manifest))

IsDir(p) ==
  /\ proc[p].pc = "isdir"
  /\ Apply(p, IsDirStep(dirs, files, proc[p], manifest))

Summary(p) ==
  /\ proc[p].pc = "print"
  /\ Apply(p, SummaryStep(dirs, files, proc[p], manifest))

Next ==
  \E p \in DOMAIN proc :
    \/ Invoke(p)
    \/ Mkdir(p)
    \/ IsDir(p)
    \/ Summary(p)

Spec == Init /\ [][Next]_vars

SpecPerm == InitPerm /\ [][Next]_vars

SpecConc == InitConc /\ [][Next]_vars

\* a started run keeps executing
FairSpec == Init /\ [][Next]_vars /\ WF_vars(Next)

TypeOK ==
  /\ \A p \in DOMAIN proc :
       proc[p].pc \in {"idle", "mkdir", "isdir", "print", "done", "error"}
  /\ dirs \cap files = {}

----------------------------------------------------------------------------
(* Properties *)

Range(s) == {s[i] : i \in DOMAIN s}

\* the path components of the i-th manifest entry from BASE_DIR downwards
Components(i) == PrefixesFrom(Join(BASE_DIR, manifest[i]), Len(BASE_DIR))

\* some component of the i-th entry is a plain file
Conflict(i) == Components(i) \cap files # {}

AnyConflict == \E i \in 1..Len(manifest) : Conflict(i)

FirstAffected == Min({i \in 1..Len(manifest) : Conflict(i)})

Running(l) == l.pc \in {"mkdir", "isdir", "print"}

\* BASE_DIR existed before the first run, with nothing in it
EmptyBase ==
  /\ BASE_DIR \in fs0.dirs
  /\ \A x \in fs0.dirs \cup fs0.files : ~(IsPrefix(BASE_DIR, x) /\ x # BASE_DIR)

\* C1 (completeness): when a run has returned, every manifest entry under
\* BASE_DIR is a directory, and so are all the path segments above it,
\* BASE_DIR included.
C1_Completeness ==
  \A p \in DOMAIN proc :
    proc[p].pc = "done" =>
      \A i \in 1..Len(DIRS) :
        \A n \in 0..Len(Join(BASE_DIR, DIRS[i])) :
          SubSeq(Join(BASE_DIR, DIRS[i]), 1, n) \in dirs

\* a first run returned although not even BASE_DIR existed before it
C1_Witness ==
  \E p \in DOMAIN proc :
    proc[p].pc = "done" /\ proc[p].run = 1 /\ BASE_DIR \notin fs0.dirs

\* C2 (idempotence): a run that follows a successful run does not fail,
\* never changes the filesystem the first run left, and returns and reports
\* the same count, the manifest length.
C2_Idempotence ==
  \A p \in DOMAIN proc :
    proc[p].prev.ok =>
      /\ proc[p].pc # "error"
      /\ dirs = proc[p].prev.dirs
      /\ files = proc[p].prev.files
      /\ proc[p].prev.count = Len(DIRS)
      /\ proc[p].pc = "done" =>
           /\ proc[p].out = <<proc[p].prev.count>>
           /\ Len(proc[p].ret) = proc[p].prev.count

\* the second of two runs returned, the first having had directories to make
C2_Witness ==
  \E p \in DOMAIN proc :
    /\ proc[p].pc = "done" /\ proc[p].run = 2 /\ proc[p].prev.ok
    /\ fs0.dirs # dirs

\* C3 (count): every summary a run prints reports 26, the manifest length,
\* whichever manifest directories existed before the run; a run that
\* returned printed exactly one summary.
C3_Count ==
  /\ Len(DIRS) = 26
  /\ \A p \in DOMAIN proc :
       /\ \A k \in DOMAIN proc[p].out : proc[p].out[k] = 26
       /\ proc[p].pc = "done" => Len(proc[p].out) = 1

\* a first run returned where some manifest directories existed before and
\* others did not
C3_Witness ==
  \E p \in DOMAIN proc :
    /\ proc[p].pc = "done" /\ proc[p].run = 1
    /\ \E i, j \in 1..Len(DIRS) :
         /\ Join(BASE_DIR, DIRS[i]) \in fs0.dirs
         /\ Join(BASE_DIR, DIRS[j]) \notin fs0.dirs

\* C4 (failure propagation): when a path component of a manifest entry is a
\* plain file, a run never gets past the first such entry, prints nothing,
\* and ends in the error of the directory creation for that entry.
C4_FailurePropagation ==
  /\ [](\A p \in DOMAIN proc :
          (AnyConflict /\ proc[p].pc # "idle") =>
            /\ proc[p].pc \in {"mkdir", "isdir", "error"}
            /\ proc[p].out = <<>>
            /\ proc[p].idx <= FirstAffected
            /\ proc[p].pc = "error" =>
                 /\ proc[p].idx = FirstAffected
                 /\ proc[p].exc \in {"FileExistsError", "NotADirectoryError"})
  /\ (AnyConflict /\ \E p \in DOMAIN proc : Running(proc[p]))
       ~> (\E p \in DOMAIN proc : proc[p].pc = "error")

\* a run failed on BASE_DIR/presentation being a plain file
C4_Witness ==
  \E p \in DOMAIN proc :
    /\ proc[p].pc = "error"
    /\ Join(BASE_DIR, <<"presentation">>) \in files

\* C5 (result sequence): the sequence a run returns has the length of the
\* manifest and its i-th element is "src/" followed by the i-th entry.
C5_ResultSequence ==
  \A p \in DOMAIN proc :
    proc[p].pc = "done" =>
      /\ Len(proc[p].ret) = Len(DIRS)
      /\ \A i \in 1..Len(DIRS) : proc[p].ret[i] = "src" \o "/" \o Str(DIRS[i])

\* a run returned with the 11th and 22nd entries spelled out
C5_Witness ==
  \E p \in DOMAIN proc :
    /\ proc[p].pc = "done"
    /\ proc[p].ret[11] = "src/domain/auth/entities"
    /\ proc[p].ret[22] = "src/infrastructure/persistence/typeorm/repositories"

\* C6 as stated: from an empty BASE_DIR a run returns 26 paths, among them
\* "domain/auth/entities" and
\* "infrastructure/persistence/typeorm/repositories", and prints 26.
C6_AsStated ==
  \A p \in DOMAIN proc :
    (EmptyBase /\ proc[p].pc = "done") =>
      /\ Len(proc[p].ret) = 26
      /\ "domain/auth/entities" \in Range(proc[p].ret)
      /\ "infrastructure/persistence/typeorm/repositories" \in Range(proc[p].ret)
      /\ proc[p].out = <<26>>

\* C6 (concrete scenario), amended: from an empty BASE_DIR a run returns 26
\* paths, among them "src/domain/auth/entities" and
\* "src/infrastructure/persistence/typeorm/repositories", and prints one
\* summary reporting 26.
C6_Scenario ==
  \A p \in DOMAIN proc :
    (EmptyBase /\ proc[p].pc = "done") =>
      /\ Len(proc[p].ret) = 26
      /\ "src/domain/auth/entities" \in Range(proc[p].ret)
      /\ "src/infrastructure/persistence/typeorm/repositories"
           \in Range(proc[p].ret)
      /\ proc[p].out = <<26>>

\* the first run from an empty BASE_DIR returned
C6_Witness ==
  \E p \in DOMAIN proc :
    EmptyBase /\ proc[p].pc = "done" /\ proc[p].run = 1

\* C7 (frame): no step removes or changes a file or a directory, and a step
\* creates nothing but BASE_DIR and the manifest entries and their ancestors
\* under it.
C7_Frame ==
  [][/\ files' = files
     /\ dirs \subseteq dirs'
     /\ (dirs' \ dirs) \subseteq Tree]_vars

\* a run failed after it had made directories, beside a file the manifest
\* does not name
C7_Witness ==
  \E p \in DOMAIN proc :
    /\ proc[p].pc = "error"
    /\ dirs # fs0.dirs
    /\ Extras \cap files # {}

\* C8 (order independence): a run over a reordered manifest that returns
\* leaves the directories that a run over DIRS in the written order leaves
\* from the same initial filesystem, and that run returns too.
C8_OrderIndependence ==
  \A p \in DOMAIN proc :
    proc[p].pc = "done" =>
      LET ref == create_dirs(fs0.dirs, fs0.files, DIRS)
      IN  ref.l.pc = "done" /\ dirs = ref.dirs

\* a run over a manifest whose first and last entries are not those of DIRS
\* returned, having had directories to make
C8_Witness ==
  \E p \in DOMAIN proc :
    /\ proc[p].pc = "done" /\ proc[p].run = 1
    /\ manifest[1] # DIRS[1] /\ manifest[Len(DIRS)] # DIRS[Len(DIRS)]
    /\ dirs # fs0.dirs

\* the creation the run is in cannot succeed
Failing(l) ==
  \/ l.pc = "isdir" /\ l.target \notin dirs
  \/ l.pc = "mkdir" /\ OsMkdir(dirs, files, l.target) = "ENOENT" /\ l.retry

\* C9 (partial failure): the entries are taken in manifest order, each once;
\* a failing creation ends the run at its entry; the failure and the failed
\* run remove nothing and take no further entry.
C9_PartialFailure ==
  [][\A p \in DOMAIN proc :
       LET a == proc[p]
           b == proc'[p]
       IN  /\ a.attempts = [i \in 1..a.idx |-> i]
           /\ b.attempts = [i \in 1..b.idx |-> i]
           /\ dirs \subseteq dirs'
           /\ (Failing(a) /\ b # a) =>
                /\ b.pc = "error"
                /\ b.idx = a.idx /\ b.attempts = a.attempts
                /\ dirs' = dirs
           /\ (a.pc = "error" /\ b.run = a.run) => (b = a /\ dirs' = dirs)]_vars

\* a run failed at a later entry, with directories of earlier entries made
\* and entries left over
C9_Witness ==
  \E p \in DOMAIN proc :
    /\ proc[p].pc = "error"
    /\ 1 < proc[p].idx /\ proc[p].idx < Len(DIRS)
    /\ \E i \in 1..(proc[p].idx - 1) :
         Join(BASE_DIR, DIRS[i]) \in dirs \ fs0.dirs

\* no manifest component was a plain file before the runs
NoConflict0 == Tree \cap fs0.files = {}

\* C10 (concurrent runs): with no conflicting plain file, neither of two
\* interleaved runs fails, each prints 26, and a run that returned leaves
\* the directories a single run leaves.
C10_Concurrent ==
  NoConflict0 =>
    \A p \in DOMAIN proc :
      /\ proc[p].pc # "error"
      /\ proc[p].pc = "done" =>
           /\ proc[p].out = <<26>>
           /\ dirs = create_dirs(fs0.dirs, fs0.files, DIRS).dirs

\* a run finds a directory in its way that did not exist before the runs:
\* the other run made it first
C10_Witness ==
  /\ NoConflict0
  /\ \E p, q \in DOMAIN proc :
       /\ p # q
       /\ proc[p].pc = "isdir" /\ proc[p].errno = "EEXIST"
       /\ proc[p].target \notin fs0.dirs
       /\ Running(proc[q])

====
